---------------------------- MODULE Spec2Model ----------------------------
(***************************************************************************)
(* Optimal Lockdown Calculator (src/main.py).                              *)
(*                                                                         *)
(* The Streamlit script reads the sidebar inputs, and on "Run Simulation"  *)
(* calls run_simulation(solver): it derives the SEIR initial fractions and *)
(* rate constants, runs the uncontrolled simulation solve (IMODE 7), then  *)
(* the capacity-constrained optimization solve (IMODE 6), post-processes   *)
(* the control trajectory into the df_time table and emits the chart, the  *)
(* table and the CSV link.  A bare except around the call reports every    *)
(* exception with one st.error message.                                    *)
(*                                                                         *)
(* Units.  Python floats are modelled by exact integers:                   *)
(*   - the control u in units of 1/UDen (1e-5);                            *)
(*   - '% Lockdown Strength' in hundredths of a percent (two decimals);    *)
(*   - rate constants in units of 1/RateDen per day;                       *)
(*   - compartment fractions in units of 1/One(N_in), where N_in is the    *)
(*     population of the run.                                              *)
(* The GEKKO solver is not part of the repository: a solve is an external  *)
(* step that either raises or returns, and a returned trajectory advances  *)
(* each sample by the rate equations evaluated at some collocation node.   *)
(***************************************************************************)
EXTENDS Integers, Sequences, FiniteSets

VARIABLES
    N_in, Rt_in, t_incubation, t_infective, hcc_max,   \* sidebar inputs
    i_in, e_in, r_in, solver_radio,
    pc,          \* position of the script / of run_simulation
    IMODE,       \* m.options.IMODE
    i_UPPER,     \* i.UPPER, in percent of N ("none" until line 152)
    solves,      \* the m.solve() calls made in this run, in order
    failure,     \* what went wrong in this run ("none" if nothing)
    outputs,     \* what the script has emitted in this run, in order
    state,       \* current sample <<s, e, i, r>> of the trajectory
    k,           \* index of the current sample on the time grid
    u_value,     \* u.value after the optimization solve
    df_time      \* the result table

inputs == <<N_in, Rt_in, t_incubation, t_infective, hcc_max,
            i_in, e_in, r_in, solver_radio>>
vars == <<N_in, Rt_in, t_incubation, t_infective, hcc_max,
          i_in, e_in, r_in, solver_radio,
          pc, IMODE, i_UPPER, solves, failure, outputs, state, k,
          u_value, df_time>>

---------------------------------------------------------------------------
(* Bounds of the model.                                                    *)
MaxN == 2            \* N_in ranges over 1..MaxN
MaxCount == 1        \* i_in, e_in, r_in range over 0..MaxCount
MaxPeriod == 2       \* the periods range over -1..MaxPeriod
MaxRt == 2           \* Rt_in ranges over 1..MaxRt
MaxSteps == 2        \* samples of a trajectory followed step by step

(* Program constants.                                                      *)
NSamples == 16       \* np.linspace(0, 30, 16)
Horizon == 30
UDen == 100000       \* unit of u: 1e-5
U_LB == 0            \* m.MV(0, lb=0.0, ub=0.9)
U_UB == 90000
RateDen == 6         \* unit of alpha, beta, gamma: 1/6 per day
HccDefault == 2      \* hcc_max default value=2.0

Populations == 1..MaxN
Counts == 0..MaxCount
Periods == (-1)..MaxPeriod
RtValues == 1..MaxRt
HccValues == {HccDefault}
SolverChoices == {"Solver 1: Advanced Process Optimizer (APOPT)",
                  "Solver 2: Interior Point Optimizer (IPOPT)"}

---------------------------------------------------------------------------
(* Helpers.                                                                *)
RECURSIVE MaxOver(_, _, _)
\* maximum of f[lo..hi]; the caller guarantees lo <= hi
MaxOver(f, lo, hi) ==
    IF lo = hi THEN f[lo]
    ELSE LET m == MaxOver(f, lo + 1, hi)
         IN  IF f[lo] >= m THEN f[lo] ELSE m


Min(a, b) == IF a <= b THEN a ELSE b

\* round-half-even of p / d, for p >= 0 and d > 0 (numpy rounding)
RoundHalfEven(p, d) ==
    LET q == p \div d
        r == p % d
    IN  IF 2 * r > d \/ (2 * r = d /\ q % 2 = 1) THEN q + 1 ELSE q

---------------------------------------------------------------------------
(* run_simulation, lines 83-103: initial fractions, rate constants and the *)
(* SEIR rate equations.                                                    *)

\* the fraction 1 and the fraction count/N, in the fine unit of the run
One(N) == UDen * RateDen * N * N
Frac(count, N) == count * UDen * RateDen * N

e_initial == Frac(e_in, N_in)
i_initial == Frac(i_in, N_in)
r_initial == Frac(r_in, N_in)
s_initial == One(N_in) - e_initial - i_initial - r_initial

InitialState == <<s_initial, e_initial, i_initial, r_initial>>

\* 1/t in units of 1/RateDen; Python raises ZeroDivisionError for t = 0
DivisionRaises == t_incubation = 0 \/ t_infective = 0
Recip(t) == IF t > 0 THEN RateDen \div t ELSE -(RateDen \div (-t))
alpha == Recip(t_incubation)
gamma == Recip(t_infective)
beta == Rt_in * gamma

\* The four equations of m.Equations, evaluated at a node <<S, E, I>> given
\* in units of 1/N_in and a control U in units of 1/UDen; the value is the
\* derivative per day in the fine unit.
\* a faulty variant of e_dt: the control factor (1-u) left out of the exposed equation
e_dt_NoControl(S, E, I, U) == UDen * beta * S * I - alpha * E * UDen * N_in

s_dt(S, E, I, U) == -((UDen - U) * beta * S * I)
e_dt(S, E, I, U) == (UDen - U) * beta * S * I - alpha * E * UDen * N_in
i_dt(S, E, I, U) == alpha * E * UDen * N_in - gamma * I * UDen * N_in
r_dt(S, E, I, U) == gamma * I * UDen * N_in

\* t = np.linspace(0, 30, 16): the step between two samples, in days
StepDays == Horizon \div (NSamples - 1)
Day(j) == (j - 1) * StepDays

\* one sample to the next: the equations hold at the node the solver used
Advance(x, S, E, I, U) ==
    <<x[1] + StepDays * s_dt(S, E, I, U),
      x[2] + StepDays * e_dt(S, E, I, U),
      x[3] + StepDays * i_dt(S, E, I, U),
      x[4] + StepDays * r_dt(S, E, I, U)>>

\* the nodes a solve may evaluate the equations at, in units of 1/N_in
Nodes == {n \in (0..N_in) \X (0..N_in) \X (0..N_in) : n[1] + n[2] + n[3] <= N_in}
    \cup {<<N_in - e_in - i_in - r_in, e_in, i_in>>}

\* the controls an optimization step may apply, within m.MV(0, lb=0.0, ub=0.9)
StepControls == {U_LB, U_UB}

---------------------------------------------------------------------------
(* run_simulation, lines 181-212: the result table df_time.                *)

T_ECQ == 7500        \* >= 75.0
T_MECQ == 5000       \* >= 50.0
T_GCQ == 2500        \* >= 25.0
T_MGCQ == 1000       \* > 10.0, == 10.0

\* .replace(0.0, 0.1)
Replace0(u) == IF u = 0 THEN UDen \div 10 ELSE u
\* * 100: percent, still in units of 1e-5
Times100(u) == u * 100
\* .round(2): hundredths of a percent
Round2(p) == RoundHalfEven(p, UDen \div 100)

Strength(u) == [j \in 1..Len(u) |-> Round2(Times100(Replace0(u[j])))]

\* the hand-written slices of lines 187-190, as Python half-open ranges
Slices == << <<0, 8>>, <<8, 15>>, <<15, 22>>, <<22, 29>> >>

\* a faulty variant of AssignSliceMax: the end of the slice taken one row short
AssignSliceMax_OffByOne(col, raw, lo, hi) ==
    LET a == lo + 1
        b == Min(hi - 1, Len(raw))
    IN  IF a > b THEN col
        ELSE [j \in 1..Len(col) |->
                 IF a <= j /\ j <= b THEN MaxOver(raw, a, b) ELSE col[j]]

\* col.iloc[lo:hi] = raw.iloc[lo:hi].max(); an empty slice assigns nothing
AssignSliceMax(col, raw, lo, hi) ==
    LET a == lo + 1
        b == Min(hi, Len(raw))
    IN  IF a > b THEN col
        ELSE [j \in 1..Len(col) |->
                 IF a <= j /\ j <= b THEN MaxOver(raw, a, b) ELSE col[j]]

RECURSIVE AssignSlices(_, _, _)
\* lines 186-190: the column starts as a copy of raw, then slice by slice
AssignSlices(col, raw, w) ==
    IF w > Len(Slices) THEN col
    ELSE AssignSlices(AssignSliceMax(col, raw, Slices[w][1], Slices[w][2]),
                      raw, w + 1)

Adjusted(raw) == AssignSlices(raw, raw, 1)

\* a faulty variant of Recommend: both ends of each band tested on the raw strength
Recommend_RawOnly(adj, raw) ==
    IF raw >= T_ECQ THEN "ECQ"
    ELSE IF raw >= T_MECQ /\ raw < T_ECQ THEN "MECQ"
    ELSE IF raw >= T_GCQ /\ raw < T_MECQ THEN "GCQ"
    ELSE IF raw > T_MGCQ /\ raw < T_GCQ THEN "MGCQ"
    ELSE IF raw = T_MGCQ THEN "N/A"
    ELSE "black"

\* np.select(conditions, choices, default='black'): the first condition
\* that holds decides
Recommend(adj, raw) ==
    IF adj >= T_ECQ THEN "ECQ"
    ELSE IF adj >= T_MECQ /\ raw < T_ECQ THEN "MECQ"
    ELSE IF adj >= T_GCQ /\ raw < T_MECQ THEN "GCQ"
    ELSE IF adj > T_MGCQ /\ raw < T_GCQ THEN "MGCQ"
    ELSE IF adj = T_MGCQ THEN "N/A"
    ELSE "black"

NoTable == [Day |-> <<>>, Strength |-> <<>>, Adjusted |-> <<>>,
            Recommendation |-> <<>>]

BuildTable(u) ==
    LET raw == Strength(u)
        adj == Adjusted(raw)
    IN  [Day |-> [j \in 1..Len(u) |-> Day(j)],
         Strength |-> raw,
         Adjusted |-> adj,
         Recommendation |-> [j \in 1..Len(u) |-> Recommend(adj[j], raw[j])]]

\* the control values the model lets the solver return, within [0, 0.9]
UValues == {0, 4, 5000, 9996, 10000, 10004, 24996, 25000, 49996, 50000,
            74996, 75000, 90000}
\* a level b with one sample p at the level v
Traj(b, p, v) == [j \in 1..NSamples |-> IF j = p THEN v ELSE b]
UTrajectories == {Traj(b, p, v) : b \in UValues, p \in 1..NSamples, v \in UValues}
FlowControls == {Traj(b, 1, b) : b \in {0, 5000, 50000}}

---------------------------------------------------------------------------
(* The script and run_simulation as a state machine.                       *)

ClickPrompt == "Click button to run the simulation."
ErrorMessage == "Error: Solution not found. Try increasing the maximum number of health facilities in the sidebar."

InputsOK ==
    /\ N_in \in Populations
    /\ Rt_in \in RtValues
    /\ t_incubation \in Periods
    /\ t_infective \in Periods
    /\ hcc_max \in HccValues
    /\ i_in \in Counts
    /\ e_in \in Counts
    /\ r_in \in Counts
    /\ solver_radio \in SolverChoices

\* a script run in which the button is not pressed: nothing of run_simulation
Fresh ==
    /\ pc = "form"
    /\ IMODE = 0
    /\ i_UPPER = "none"
    /\ solves = <<>>
    /\ failure = "none"
    /\ outputs = <<ClickPrompt>>
    /\ state = <<0, 0, 0, 0>>
    /\ k = 0
    /\ u_value = <<>>
    /\ df_time = NoTable

Init == InputsOK /\ Fresh

\* the script reruns from the top with the button not pressed
Rerun ==
    /\ pc' = "form"
    /\ IMODE' = 0
    /\ i_UPPER' = "none"
    /\ solves' = <<>>
    /\ failure' = "none"
    /\ outputs' = <<ClickPrompt>>
    /\ state' = <<0, 0, 0, 0>>
    /\ k' = 0
    /\ u_value' = <<>>
    /\ df_time' = NoTable

\* the user edits one widget of the sidebar (lines 24-75, 281-284), which
\* makes Streamlit rerun the script
EditInputs ==
    /\ pc \in {"form", "done", "error"}
    /\ \/ N_in' \in Populations /\ UNCHANGED <<Rt_in, t_incubation, t_infective, hcc_max, i_in, e_in, r_in, solver_radio>>
       \/ Rt_in' \in RtValues /\ UNCHANGED <<N_in, t_incubation, t_infective, hcc_max, i_in, e_in, r_in, solver_radio>>
       \/ t_incubation' \in Periods /\ UNCHANGED <<N_in, Rt_in, t_infective, hcc_max, i_in, e_in, r_in, solver_radio>>
       \/ t_infective' \in Periods /\ UNCHANGED <<N_in, Rt_in, t_incubation, hcc_max, i_in, e_in, r_in, solver_radio>>
       \/ hcc_max' \in HccValues /\ UNCHANGED <<N_in, Rt_in, t_incubation, t_infective, i_in, e_in, r_in, solver_radio>>
       \/ i_in' \in Counts /\ UNCHANGED <<N_in, Rt_in, t_incubation, t_infective, hcc_max, e_in, r_in, solver_radio>>
       \/ e_in' \in Counts /\ UNCHANGED <<N_in, Rt_in, t_incubation, t_infective, hcc_max, i_in, r_in, solver_radio>>
       \/ r_in' \in Counts /\ UNCHANGED <<N_in, Rt_in, t_incubation, t_infective, hcc_max, i_in, e_in, solver_radio>>
       \/ solver_radio' \in SolverChoices /\ UNCHANGED <<N_in, Rt_in, t_incubation, t_infective, hcc_max, i_in, e_in, r_in>>
    /\ Rerun

\* except: st.error(...) for whatever was raised inside run_simulation
Except(kind) ==
    /\ pc' = "error"
    /\ failure' = kind
    /\ outputs' = Append(outputs, ErrorMessage)

\* "Run Simulation" pressed; run_simulation lines 83-108 build the model
BuildModel ==
    /\ pc \in {"form", "done", "error"}
    /\ ~DivisionRaises
    /\ pc' = "built"
    /\ IMODE' = 0
    /\ i_UPPER' = "none"
    /\ solves' = <<>>
    /\ failure' = "none"
    /\ outputs' = <<>>
    /\ state' = InitialState
    /\ k' = 0
    /\ u_value' = <<>>
    /\ df_time' = NoTable
    /\ UNCHANGED inputs

\* lines 88-89 raise ZeroDivisionError for a period of 0
BuildModelRaises ==
    /\ pc \in {"form", "done", "error"}
    /\ DivisionRaises
    /\ pc' = "error"
    /\ IMODE' = 0
    /\ i_UPPER' = "none"
    /\ solves' = <<>>
    /\ failure' = "ZeroDivisionError"
    /\ outputs' = <<ErrorMessage>>
    /\ state' = <<0, 0, 0, 0>>
    /\ k' = 0
    /\ u_value' = <<>>
    /\ df_time' = NoTable
    /\ UNCHANGED inputs

\* lines 111-114, m.solve(disp=False) returns
SimSolveOk ==
    /\ pc = "built"
    /\ IMODE' = 7
    /\ solves' = Append(solves, "simulation")
    /\ pc' = "simulated"
    /\ UNCHANGED <<inputs, i_UPPER, failure, outputs, state, k, u_value, df_time>>

\* a faulty variant of SimSolveFails: the failure is swallowed and the run goes on
SimSolveFails_Proceeds ==
    /\ pc = "built"
    /\ IMODE' = 7
    /\ solves' = Append(solves, "simulation")
    /\ failure' = "SimulationFailure"
    /\ pc' = "simulated"
    /\ UNCHANGED <<inputs, i_UPPER, outputs, state, k, u_value, df_time>>

\* lines 111-114, m.solve(disp=False) raises: the exception leaves
\* run_simulation and reaches the except clause of the caller
SimSolveFails ==
    /\ pc = "built"
    /\ IMODE' = 7
    /\ solves' = Append(solves, "simulation")
    /\ Except("SimulationFailure")
    /\ UNCHANGED <<inputs, i_UPPER, state, k, u_value, df_time>>

\* lines 151-162, m.solve(disp=True) returns a control trajectory
OptSolveOk(controls) ==
    /\ pc = "simulated"
    /\ IMODE' = 6
    /\ i_UPPER' = hcc_max
    /\ solves' = Append(solves, "optimization")
    /\ \E u \in controls : u_value' = u
    /\ pc' = "optimized"
    /\ UNCHANGED <<inputs, failure, outputs, state, k, df_time>>

\* a faulty variant of OptSolveFails: the failure is reported but the run goes on to
\* build and emit the result from whatever u holds
OptSolveFails_Swallowed ==
    /\ pc = "simulated"
    /\ IMODE' = 6
    /\ i_UPPER' = hcc_max
    /\ solves' = Append(solves, "optimization")
    /\ failure' = "OptimizationNonconvergent"
    /\ outputs' = Append(outputs, ErrorMessage)
    /\ u_value' = Traj(0, 1, 0)
    /\ pc' = "optimized"
    /\ UNCHANGED <<inputs, state, k, df_time>>

\* lines 151-162, m.solve(disp=True) raises
OptSolveFails ==
    /\ pc = "simulated"
    /\ IMODE' = 6
    /\ i_UPPER' = hcc_max
    /\ solves' = Append(solves, "optimization")
    /\ \E kind \in {"OptimizationInfeasible", "OptimizationNonconvergent"} :
           Except(kind)
    /\ UNCHANGED <<inputs, state, k, u_value, df_time>>

\* lines 181-212
PostProcess ==
    /\ pc = "optimized"
    /\ df_time' = BuildTable(u_value)
    /\ pc' = "processed"
    /\ UNCHANGED <<inputs, IMODE, i_UPPER, solves, failure, outputs, state, k, u_value>>

Emit(from, item, to) ==
    /\ pc = from
    /\ outputs' = Append(outputs, item)
    /\ pc' = to
    /\ UNCHANGED <<inputs, IMODE, i_UPPER, solves, failure, state, k, u_value, df_time>>

\* line 249
EmitChart == Emit("processed", "chart", "charted")
\* line 265
EmitTable == Emit("charted", "table", "tabled")
\* line 273
EmitCsv == Emit("tabled", "csv", "done")

FlowSolve == OptSolveOk(FlowControls)

Next ==
    \/ EditInputs
    \/ BuildModel
    \/ BuildModelRaises
    \/ SimSolveOk
    \/ SimSolveFails
    \/ FlowSolve
    \/ OptSolveFails
    \/ PostProcess
    \/ EmitChart
    \/ EmitTable
    \/ EmitCsv

Spec == Init /\ [][Next]_vars

---------------------------------------------------------------------------
(* The post-processor on every control trajectory of UTrajectories: the    *)
(* run continues from the point where the simulation solve has returned.   *)

PostInit ==
    /\ N_in = 1 /\ Rt_in = 1 /\ t_incubation = 1 /\ t_infective = 1
    /\ hcc_max = HccDefault /\ i_in = 0 /\ e_in = 0 /\ r_in = 0
    /\ solver_radio = "Solver 1: Advanced Process Optimizer (APOPT)"
    /\ pc = "simulated"
    /\ IMODE = 7
    /\ i_UPPER = "none"
    /\ solves = <<"simulation">>
    /\ failure = "none"
    /\ outputs = <<>>
    /\ state = InitialState
    /\ k = 0
    /\ u_value = <<>>
    /\ df_time = NoTable

PostSolve == OptSolveOk(UTrajectories)

PostNext ==
    \/ PostSolve
    \/ PostProcess
    \/ EmitChart
    \/ EmitTable
    \/ EmitCsv

PostSpec == PostInit /\ [][PostNext]_vars

---------------------------------------------------------------------------
(* The two solves followed sample by sample, for the first MaxSteps        *)
(* samples of each trajectory.                                             *)

\* the inputs the equations read: every population and count, the largest
\* R(t), and periods of each sign (0 raises before a model exists)
DynInit ==
    /\ Init
    /\ solver_radio = "Solver 1: Advanced Process Optimizer (APOPT)"
    /\ Rt_in = MaxRt
    /\ t_incubation \in {0, 1, MaxPeriod}
    /\ t_infective \in {-1, 1, MaxPeriod}

\* IMODE 7: the control stays at its value 0 (u = m.MV(0), STATUS 0)
SimStep ==
    /\ pc \in {"built", "simulating"}
    /\ k < MaxSteps
    /\ IMODE' = 7
    /\ \E n \in Nodes : state' = Advance(state, n[1], n[2], n[3], 0)
    /\ k' = k + 1
    /\ pc' = "simulating"
    /\ UNCHANGED <<inputs, i_UPPER, solves, failure, outputs, u_value, df_time>>

\* lines 151-160: the optimization starts again from the initial condition
StartOptimize ==
    /\ pc = "simulating"
    /\ k = MaxSteps
    /\ IMODE' = 6
    /\ i_UPPER' = hcc_max
    /\ state' = InitialState
    /\ k' = 0
    /\ pc' = "optimizing"
    /\ UNCHANGED <<inputs, solves, failure, outputs, u_value, df_time>>

\* IMODE 6: the control is free within its bounds (u.STATUS = 1)
OptStep ==
    /\ pc = "optimizing"
    /\ k < MaxSteps
    /\ \E n \in Nodes, U \in StepControls :
           state' = Advance(state, n[1], n[2], n[3], U)
    /\ k' = k + 1
    /\ UNCHANGED <<inputs, pc, IMODE, i_UPPER, solves, failure, outputs, u_value, df_time>>

DynNext ==
    \/ BuildModel
    \/ BuildModelRaises
    \/ SimStep
    \/ StartOptimize
    \/ OptStep

DynSpec == DynInit /\ [][DynNext]_vars

---------------------------------------------------------------------------
(* Properties.                                                             *)

Range(f) == {f[j] : j \in DOMAIN f}
Results == {"chart", "table", "csv"}
SolveFailures == {"SimulationFailure", "OptimizationInfeasible",
                  "OptimizationNonconvergent"}

\* the rows (1-based) a slice of lines 187-190 covers in the table
Window(w) ==
    {j \in 1..Len(df_time.Strength) : Slices[w][1] < j /\ j <= Slices[w][2]}
UsedWindows == {w \in DOMAIN Slices : Window(w) # {}}
LastWindow(w) == \A v \in UsedWindows : v <= w

\* C2: if either solve raises, nothing of the result is emitted in that
\* run and the only output is the error message; every chart, table or CSV
\* link is emitted after both solves have returned.
C2_NoResultOnFailedSolve ==
    /\ (Range(outputs) \cap Results # {}) =>
           /\ solves = <<"simulation", "optimization">>
           /\ failure = "none"
           /\ pc \in {"charted", "tabled", "done"}
    /\ failure \in SolveFailures => outputs = <<ErrorMessage>>

\* C2 witness: the optimization solve has raised and only the error is shown
C2_Witness ==
    /\ pc = "error"
    /\ failure = "OptimizationInfeasible"
    /\ solves = <<"simulation", "optimization">>
    /\ outputs = <<ErrorMessage>>

\* C3 (as claimed): the reported error identifies the kind of failure, so a
\* failure that is not an infeasible capacity ceiling is not reported with
\* the infeasibility message.
C3_ErrorIdentifiesKind ==
    (pc = "error" /\ failure # "OptimizationInfeasible") =>
        outputs[Len(outputs)] # ErrorMessage

InvalidParameters ==
    \/ e_in + i_in + r_in > N_in
    \/ t_incubation <= 0
    \/ t_infective <= 0

\* C4 (as claimed): for physically inconsistent inputs (initial fractions
\* summing above 1, a non-positive period) no solve is ever invoked.
C4_InvalidInputsNeverSolved == InvalidParameters => solves = <<>>

\* C9 (as claimed): when the simulation solve fails, the optimization
\* solve is still run in the same invocation of run_simulation.
C9_OptimizationProceedsAfterSimFailure ==
    (pc = "error" /\ failure = "SimulationFailure") =>
        "optimization" \in Range(solves)

\* C9 (amended): the simulation solve is made, and has returned, before the
\* optimization solve is made; when the simulation solve fails the run
\* ends there with the error and the optimization solve is not made.
C9_SimulationFirstAbortOnFailure ==
    /\ "optimization" \in Range(solves) =>
           /\ solves = <<"simulation", "optimization">>
           /\ failure # "SimulationFailure"
    /\ failure = "SimulationFailure" =>
           /\ pc = "error"
           /\ solves = <<"simulation">>

\* C9 witness: a run whose simulation solve has raised
C9_Witness ==
    /\ pc = "error"
    /\ failure = "SimulationFailure"
    /\ solves = <<"simulation">>

\* C5 (as claimed): the windows of '% Adjusted Lockdown Strength' all span
\* the same number of samples, only the last one may be shorter.
C5_WindowsEqualLength ==
    \A w \in UsedWindows :
        IF LastWindow(w)
        THEN \A v \in UsedWindows :
                 Cardinality(Window(w)) <= Cardinality(Window(v))
        ELSE \A v \in UsedWindows :
                 LastWindow(v) \/ Cardinality(Window(w)) = Cardinality(Window(v))

\* C6: every sample belongs to exactly one window, its adjusted strength is
\* the maximum of the raw strength over that window, and so the adjusted
\* strength is never below the raw strength of the sample.
C6_AdjustedIsWindowMax ==
    \A j \in 1..Len(df_time.Strength) :
        /\ Cardinality({w \in DOMAIN Slices : j \in Window(w)}) = 1
        /\ \A w \in DOMAIN Slices :
               j \in Window(w) =>
                   /\ \A m \in Window(w) :
                          df_time.Adjusted[j] >= df_time.Strength[m]
                   /\ \E m \in Window(w) :
                          df_time.Adjusted[j] = df_time.Strength[m]
        /\ df_time.Adjusted[j] >= df_time.Strength[j]

\* C6 witness: a table in which a sample is held above its own raw strength
C6_Witness ==
    /\ pc = "processed"
    /\ \E j \in 1..Len(df_time.Strength) :
           df_time.Adjusted[j] > df_time.Strength[j]

C10_ClassificationTotal ==
    \A j \in 1..Len(df_time.Recommendation) :
        df_time.Recommendation[j] \in {"ECQ", "MECQ", "GCQ", "MGCQ", "N/A"}

\* C8: the initial fractions sum to 1, the four rate equations sum to zero
\* at every state and control, and so s + e + i + r = 1 at every sample of
\* the uncontrolled and of the controlled trajectory.
C8_Conservation ==
    pc \in {"built", "simulating", "optimizing"} =>
        /\ s_initial + e_initial + i_initial + r_initial = One(N_in)
        /\ \A n \in Nodes, U \in StepControls :
               s_dt(n[1], n[2], n[3], U) + e_dt(n[1], n[2], n[3], U)
                   + i_dt(n[1], n[2], n[3], U) + r_dt(n[1], n[2], n[3], U) = 0
        /\ state[1] + state[2] + state[3] + state[4] = One(N_in)

\* C8 witness: a controlled trajectory that has moved away from the
\* initial condition, MaxSteps samples in
C8_Witness ==
    /\ pc = "optimizing"
    /\ k = MaxSteps
    /\ state # InitialState
    /\ state[3] # i_initial

=============================================================================
